---- MODULE Spec2Model ----
(***************************************************************************)
(* dawgmon: compare_output (the diff engine) and run (the command line     *)
(* driver with its snapshot cache), modelled from src/dawgmon.py.          *)
(*                                                                         *)
(* A snapshot (a Python dict, insertion ordered) is a sequence of          *)
(* <<key, raw>> pairs with distinct keys.  An anomaly is the pair          *)
(* <<kind, message>> that commands.W / C / D build; a message is a tuple   *)
(* of words, so that "the message contains the name" is a membership test. *)
(* An optional value (None or a value) is a record [some, val].            *)
(***************************************************************************)
EXTENDS Integers, Sequences, FiniteSets, TLC

\* ------------------------------------------------------------------ bounds
MaxKeys == 2        \* most keys of a snapshot handed to compare_output
MaxId == 3          \* greatest cache entry id a run may assign

\* --------------------------------------------------------------- constants
MAX_CACHE_LIMIT == 1024
default_max_cache_entries == 16

\* ------------------------------------------------------------ probe set
\* commands.COMMANDS: the built-in probes, in registration order.
COMMANDS == <<"a", "b">>

\* Names a snapshot may hold: the registered ones and "u", a probe of
\* another version that this version does not register.
Names == {"a", "b", "u"}

\* Raw probe output.
Raws == {"x", "y"}

CHANGE == "CHANGE"
WARNING == "WARNING"
DEBUG == "DEBUG"

W(msg) == <<WARNING, msg>>
C(msg) == <<CHANGE, msg>>
D(msg) == <<DEBUG, msg>>

Range(s) == {s[k] : k \in 1..Len(s)}

\* commands.COMMAND_CACHE.get(task_name, None) is truthy.
Registered(task_name) == task_name \in Range(COMMANDS)

\* cmd.parse(raw): probe specific structured value.
Parse(name, raw) == [probe |-> name, data |-> raw]

\* cmd.compare(old_data, new_data).  Probe "a" keeps the contract: an empty
\* list when nothing changed, one CHANGE otherwise.  Probe "b" reports a
\* DEBUG line, then a CHANGE when the data differ, and breaks the contract
\* (returns None, not a list) when the new data is "y".
Compare(name, old_data, new_data) ==
    IF name = "a"
    THEN [islist |-> TRUE,
          val |-> IF old_data = new_data THEN <<>>
                  ELSE <<C(<<"a", "changed">>)>>]
    ELSE IF new_data.data = "y"
         THEN [islist |-> FALSE, val |-> <<>>]
         ELSE [islist |-> TRUE,
               val |-> IF old_data = new_data
                       THEN <<D(<<"b", "checked">>)>>
                       ELSE <<D(<<"b", "checked">>), C(<<"b", "changed">>)>>]

\* ------------------------------------------------------------ snapshots
Keys(s) == [k \in 1..Len(s) |-> s[k][1]]

Has(s, key) == \E k \in 1..Len(s) : s[k][1] = key

Get(s, key) == s[CHOOSE k \in 1..Len(s) : s[k][1] = key][2]

DistinctKeys(s) == \A j, k \in 1..Len(s) : j # k => s[j][1] # s[k][1]

SnapshotsUpTo(n) ==
    UNION {{s \in [1..k -> Names \X Raws] : DistinctKeys(s)} : k \in 0..n}

None == [some |-> FALSE, val |-> <<>>]
Some(v) == [some |-> TRUE, val |-> v]

\* utils.merge_keys_to_list(old, new): the keys of old in their order, then
\* the keys only new has, in their order.
merge_keys_to_list(o, n) ==
    Keys(o) \o SelectSeq(Keys(n), LAMBDA key : ~Has(o, key))

\* ------------------------------------------------------------ state
VARIABLES
    pc,           \* position in compare_output: idle, loop, returned, raised
    caller,       \* who invoked compare_output: "api" or "run"
    old_arg,      \* the old argument as passed (None or a snapshot)
    old,          \* the local old after lines 15-17
    new,          \* the new snapshot
    commandlist,  \* the filter argument (None or a list of names)
    tasks,        \* merge_keys_to_list(old, new)
    i,            \* index of the task the loop is at
    anomalies,    \* the local list being accumulated
    calls,        \* history: the parse and compare calls made, in order
    contrib,      \* history: what each task appended, in task order
    outcome,      \* how the call ended: the returned list or the exception
    prev,         \* history: the twin call made before this one (None/{} old)
    db,           \* the cache file: the persisted list of entries
    rpc,          \* position of run: shell, comparing, exited
    args,         \* the parsed command line of the run in progress
    cache,        \* the Cache object of the run: the loaded entries
    run_anomalies,\* the local list of run (lines 128-152)
    stdout,       \* what the run printed
    ended,        \* how the run ended
    db0           \* history: the cache file as the run found it

engine_vars == <<pc, caller, old_arg, old, new, commandlist, tasks, i,
                 anomalies, calls, contrib, outcome, prev>>

run_vars == <<db, rpc, args, cache, run_anomalies, stdout, ended, db0>>

vars == <<pc, caller, old_arg, old, new, commandlist, tasks, i, anomalies,
          calls, contrib, outcome, prev, db, rpc, args, cache, run_anomalies,
          stdout, ended, db0>>

NoOutcome == [kind |-> "none", val |-> <<>>]

\* ------------------------------------------------------------ compare_output
\* Lines 15-17: "if not old: old = {}" (None and the empty dict are falsy).
NormaliseOld(o) == IF ~o.some \/ o.val = <<>> THEN <<>> ELSE o.val

\* Line 24 with the membership test the wrong way round.
FilteredWhenListed(cl, task_name) ==
    cl.some /\ cl.val # <<>> /\ task_name \in Range(cl.val)

\* Line 24: "commandlist and task_name not in commandlist".
Filtered(cl, task_name) ==
    cl.some /\ cl.val # <<>> /\ task_name \notin Range(cl.val)

\* Line 27 with the key itself, not "", as the default.
OldRawKeyAsDefault(o, task_name) ==
    IF Has(o, task_name) THEN Get(o, task_name) ELSE task_name

\* Line 27: old[task_name] if task_name in old else "".
OldRaw(o, task_name) == IF Has(o, task_name) THEN Get(o, task_name) ELSE ""

\* Line 22 with the warning built but never appended.
AppendUnknownDropped(anoms, task_name) == anoms

\* Line 22: anomalies.append(commands.W("unknown command with name %s ...")).
AppendUnknown(anoms, task_name) ==
    Append(anoms, W(<<"unknown command with name", task_name,
                      "found (cache generated by older version?)">>))

\* Line 31 with the type check left out.
NotAListUnchecked(ret) == FALSE

\* Line 31: type(ret) != list.
NotAList(ret) == ~ret.islist

\* Line 34 with the operands swapped: anomalies = ret + anomalies.
AccumulateInFront(anoms, ret) == IF Len(ret) > 0 THEN ret \o anoms ELSE anoms

\* Lines 33-34: if ret and len(ret) > 0: anomalies = anomalies + ret.
Accumulate(anoms, ret) == IF Len(ret) > 0 THEN anoms \o ret ELSE anoms

\* Lines 13-18: entry of compare_output.
Enter(o, n, cl, who) ==
    /\ old_arg' = o
    /\ old' = NormaliseOld(o)
    /\ new' = n
    /\ commandlist' = cl
    /\ tasks' = merge_keys_to_list(NormaliseOld(o), n)
    /\ i' = 1
    /\ anomalies' = <<>>
    /\ calls' = <<>>
    /\ contrib' = <<>>
    /\ outcome' = NoOutcome
    /\ caller' = who
    /\ pc' = "loop"

InLoop == pc = "loop" /\ i <= Len(tasks)

ParseCall(name, raw) == [fn |-> "parse", cmd |-> name, a |-> Parse(name, raw),
                         b |-> Parse(name, raw), raw |-> raw]
CompareCall(name, a, b) == [fn |-> "compare", cmd |-> name, a |-> a, b |-> b,
                            raw |-> ""]

\* Lines 20-23: the name is not registered: one WARNING, next task.
LoopUnknown ==
    /\ InLoop
    /\ ~Registered(tasks[i])
    /\ anomalies' = AppendUnknown(anomalies, tasks[i])
    /\ contrib' = Append(contrib,
                         [task |-> tasks[i],
                          added |-> SubSeq(anomalies', Len(anomalies) + 1,
                                           Len(anomalies'))])
    /\ i' = i + 1
    /\ UNCHANGED <<pc, caller, old_arg, old, new, commandlist, tasks, calls,
                   outcome, prev, run_vars>>

\* Lines 24-25: a registered name the filter leaves out: next task.
LoopFiltered ==
    /\ InLoop
    /\ Registered(tasks[i])
    /\ Filtered(commandlist, tasks[i])
    /\ contrib' = Append(contrib, [task |-> tasks[i], added |-> <<>>])
    /\ i' = i + 1
    /\ UNCHANGED <<pc, caller, old_arg, old, new, commandlist, tasks,
                   anomalies, calls, outcome, prev, run_vars>>

\* Lines 27-29 when new has no such key: the old side is parsed, then
\* new[task_name] raises KeyError out of compare_output.
LoopKeyError ==
    /\ InLoop
    /\ Registered(tasks[i])
    /\ ~Filtered(commandlist, tasks[i])
    /\ ~Has(new, tasks[i])
    /\ calls' = Append(calls, ParseCall(tasks[i], OldRaw(old, tasks[i])))
    /\ outcome' = [kind |-> "KeyError", val |-> <<>>]
    /\ pc' = "raised"
    /\ UNCHANGED <<caller, old_arg, old, new, commandlist, tasks, i,
                   anomalies, contrib, prev, run_vars>>

\* What lines 27-30 compute for the task at hand.
OldData == Parse(tasks[i], OldRaw(old, tasks[i]))
NewData == Parse(tasks[i], Get(new, tasks[i]))
Ret == Compare(tasks[i], OldData, NewData)
CallsMade ==
    calls \o <<ParseCall(tasks[i], OldRaw(old, tasks[i])),
               ParseCall(tasks[i], Get(new, tasks[i])),
               CompareCall(tasks[i], OldData, NewData)>>

\* Lines 27-32: compare returned something that is not a list: raise.
LoopRaise ==
    /\ InLoop
    /\ Registered(tasks[i])
    /\ ~Filtered(commandlist, tasks[i])
    /\ Has(new, tasks[i])
    /\ NotAList(Ret)
    /\ calls' = CallsMade
    /\ outcome' = [kind |-> "Exception", val |-> <<>>]
    /\ pc' = "raised"
    /\ UNCHANGED <<caller, old_arg, old, new, commandlist, tasks, i,
                   anomalies, contrib, prev, run_vars>>

\* Lines 27-34: compare returned a list: append it.
LoopAppend ==
    /\ InLoop
    /\ Registered(tasks[i])
    /\ ~Filtered(commandlist, tasks[i])
    /\ Has(new, tasks[i])
    /\ ~NotAList(Ret)
    /\ calls' = CallsMade
    /\ anomalies' = Accumulate(anomalies, Ret.val)
    /\ contrib' = Append(contrib,
                         [task |-> tasks[i],
                          added |-> SubSeq(anomalies', Len(anomalies) + 1,
                                           Len(anomalies'))])
    /\ i' = i + 1
    /\ UNCHANGED <<pc, caller, old_arg, old, new, commandlist, tasks,
                   outcome, prev, run_vars>>

\* Line 35: return anomalies.
Return ==
    /\ pc = "loop"
    /\ i > Len(tasks)
    /\ outcome' = [kind |-> "returned", val |-> anomalies]
    /\ pc' = "returned"
    /\ UNCHANGED <<caller, old_arg, old, new, commandlist, tasks, i,
                   anomalies, calls, contrib, prev, run_vars>>

\* ------------------------------------------------------------ direct calls
FilterLists == {<<>>, <<"a">>, <<"b">>, <<"u">>, <<"a", "b">>, <<"a", "u">>,
                <<"b", "u">>}

Filters == {None} \cup {Some(l) : l \in FilterLists}

OldArgs == {None} \cup {Some(s) : s \in SnapshotsUpTo(MaxKeys)}

NoPrev == [some |-> FALSE, old_arg |-> None, outcome |-> NoOutcome]

\* A direct call compare_output(old, new, commandlist).
Call ==
    /\ pc = "idle"
    /\ rpc = "api"
    /\ \E o \in OldArgs, n \in SnapshotsUpTo(MaxKeys), cl \in Filters :
           Enter(o, n, cl, "api")
    /\ prev' = NoPrev
    /\ UNCHANGED run_vars

\* The same call made again with None in place of {} or {} in place of None.
Recall ==
    /\ pc \in {"returned", "raised"}
    /\ caller = "api"
    /\ ~prev.some
    /\ old_arg \in {None, Some(<<>>)}
    /\ prev' = [some |-> TRUE, old_arg |-> old_arg, outcome |-> outcome]
    /\ Enter(IF old_arg = None THEN Some(<<>>) ELSE None, new, commandlist,
             "api")
    /\ UNCHANGED run_vars

\* ------------------------------------------------------------ the cache
\* cache.Cache: a list of entries [id, snapshot] in append order.  (The
\* timestamp of an entry is written and listed only; it is left out.)

\* Cache.get_last_entry(): the snapshot of the last entry, or None.
get_last_entry(c) == IF c = <<>> THEN None ELSE Some(c[Len(c)].snapshot)

\* Cache.get_entry(id): the snapshot of the entry with that id, or None.
get_entry(c, id) ==
    IF \E k \in 1..Len(c) : c[k].id = id
    THEN Some(c[CHOOSE k \in 1..Len(c) : c[k].id = id].snapshot)
    ELSE None

\* The id Cache.add_entry assigns: 1, or the greatest id plus one.
next_id(c) == IF c = <<>> THEN 1 ELSE c[Len(c)].id + 1

\* Cache.add_entry(snapshot).
add_entry(c, snapshot) == Append(c, [id |-> next_id(c), snapshot |-> snapshot])

\* Cache.purge(n): keep the n entries with the greatest ids.
purge(c, n) == IF Len(c) > n THEN SubSeq(c, Len(c) - n + 1, Len(c)) ELSE c

\* Python truthiness of an optional snapshot: None and {} are falsy.
Falsy(opt) == ~opt.some \/ opt.val = <<>>

\* ------------------------------------------------------------ print_anomalies
Line(tag, text, nums) == [tag |-> tag, text |-> text, nums |-> nums]

OfKind(anoms, kind) == SelectSeq(anoms, LAMBDA x : x[1] = kind)

\* Lines 37-55: the summary line, the warnings, the changes, and the debug
\* messages when asked for.
print_anomalies(anoms, show_debug) ==
    LET changes == OfKind(anoms, CHANGE)
        warning == OfKind(anoms, WARNING)
        debug == IF show_debug THEN OfKind(anoms, DEBUG) ELSE <<>>
    IN  <<Line("summary", <<>>, <<Len(changes), Len(warning), Len(debug)>>)>>
        \o [k \in 1..Len(warning) |-> Line("!", warning[k][2], <<>>)]
        \o [k \in 1..Len(changes) |-> Line("+", changes[k][2], <<>>)]
        \o [k \in 1..Len(debug) |-> Line("-", debug[k][2], <<>>)]

\* ------------------------------------------------------------ run
Modes == {"none", "analyze", "compare", "list_commands", "list_cache"}

\* Values of -m: the default, small limits, and one past either end.
MaxValues == {0, 1, 2, default_max_cache_entries, MAX_CACHE_LIMIT + 1}

\* Values of -e: not given, or one probe.
CommandLists == {None, Some(<<"a">>), Some(<<"b">>)}

\* Ids of -C.
CompareIds == 1..MaxId

ArgSets == [mode : Modes, compare_cache : CompareIds \X CompareIds,
            commandlist : CommandLists, max_cache_entries : MaxValues]

NoArgs == [mode |-> "none", compare_cache |-> <<1, 1>>, commandlist |-> None,
           max_cache_entries |-> default_max_cache_entries]

\* Line 81.
InvalidMax(a) ==
    a.max_cache_entries < 1 \/ a.max_cache_entries > MAX_CACHE_LIMIT

\* Line 118 without the test of the command list.
add_to_cache_any_analysis(a) == a.mode = "analyze"

\* Line 118: only add results to cache if a full analysis was run.
add_to_cache(a) == ~a.commandlist.some /\ a.mode = "analyze"

\* Lines 121-124: no -e means every built-in command.
EffectiveCommandlist(a) ==
    IF a.commandlist.some THEN a.commandlist.val ELSE COMMANDS

\* local.local_run(tmpdirname, commandlist): one raw output per command.
local_run_results(cl) ==
    {s \in [1..Len(cl) -> Names \X Raws] : \A k \in 1..Len(cl) : s[k][1] = cl[k]}

\* Lines 132-138: the bookkeeping warning of an analysis.
Bookkeeping(a, o) ==
    IF add_to_cache(a)
    THEN IF Falsy(o)
         THEN <<W(<<"no cache entry found yet so caching baseline">>)>>
         ELSE <<>>
    ELSE <<W(<<"results NOT cached as only partial command list being run">>)>>

\* Lines 133-136: cache.add_entry(new) on a full analysis.
CacheAfterAnalyze(a, c, n) == IF add_to_cache(a) THEN add_entry(c, n) ELSE c

\* Line 140 looking up id1 first.
FirstLookupId1(a) == a.compare_cache[1]

\* Line 140 and line 144: the ids looked up, in that order.
FirstLookup(a) == a.compare_cache[2]
SecondLookup(a) == a.compare_cache[1]

\* Line 152 with the operands swapped.
MergeComparedFirst(own, compared) == compared \o own

\* Line 152: anomalies = anomalies + compare_output(old, new, commandlist).
Merge(own, compared) == own \o compared

\* Line 158 left out: the cache is saved as it is.
CacheNotPurged(c, a) == c

\* Line 158: cache.purge(args.max_cache_entries).
CacheAfterPurge(c, a) == purge(c, a.max_cache_entries)

Start(a) ==
    /\ args' = a
    /\ db0' = db

Exit(how, out) ==
    /\ rpc' = "exited"
    /\ ended' = how
    /\ stdout' = out

\* Lines 81-83: -m out of range: message and exit(1).
RunInvalidMax ==
    /\ rpc = "shell"
    /\ \E a \in ArgSets :
        /\ Start(a)
        /\ InvalidMax(a)
        /\ Exit("invalid", <<Line("error",
               <<"maximum number of cache entries invalid or set too high">>,
               <<>>)>>)
        /\ UNCHANGED <<engine_vars, db, cache, run_anomalies>>

\* Lines 88-90: no action selected.
RunNoAction ==
    /\ rpc = "shell"
    /\ \E a \in ArgSets :
        /\ Start(a)
        /\ ~InvalidMax(a)
        /\ a.mode = "none"
        /\ Exit("noaction", <<Line("error", <<"select an action -A/C/E/L">>,
                                   <<>>)>>)
        /\ UNCHANGED <<engine_vars, db, cache, run_anomalies>>

\* Lines 92-96: an analysis not run as root, and the user does not answer y.
RunDeclined ==
    /\ rpc = "shell"
    /\ \E a \in ArgSets :
        /\ Start(a)
        /\ ~InvalidMax(a)
        /\ a.mode = "analyze"
        /\ Exit("declined", <<Line("prompt",
               <<"It's strongly recommended to run an analysis as root.">>,
               <<>>)>>)
        /\ UNCHANGED <<engine_vars, db, cache, run_anomalies>>

\* Lines 99-108: -L lists the entries of the loaded cache.
RunListCache ==
    /\ rpc = "shell"
    /\ \E a \in ArgSets :
        /\ Start(a)
        /\ ~InvalidMax(a)
        /\ a.mode = "list_cache"
        /\ cache' = db
        /\ Exit("listed",
                <<Line("header", <<"ID", "TIMESTAMP">>, <<>>)>>
                \o [k \in 1..Len(db) |-> Line("entry", <<>>, <<db[k].id>>)])
        /\ UNCHANGED <<engine_vars, db, run_anomalies>>

\* Lines 99-100, 110-115: -E lists the registered commands, sorted.
RunListCommands ==
    /\ rpc = "shell"
    /\ \E a \in ArgSets :
        /\ Start(a)
        /\ ~InvalidMax(a)
        /\ a.mode = "list_commands"
        /\ cache' = db
        /\ Exit("commands",
                [k \in 1..Len(COMMANDS) |-> Line("command", <<COMMANDS[k]>>,
                                                 <<>>)])
        /\ UNCHANGED <<engine_vars, db, run_anomalies>>

\* Lines 99-100, 118-138, 152: -A collects a snapshot, reads the baseline,
\* adds the snapshot on a full analysis, and calls compare_output.
RunAnalyze ==
    /\ rpc = "shell"
    /\ \E a \in ArgSets :
        /\ Start(a)
        /\ ~InvalidMax(a)
        /\ a.mode = "analyze"
        /\ add_to_cache(a) => next_id(db) <= MaxId
        /\ \E n \in local_run_results(EffectiveCommandlist(a)) :
             LET o == get_last_entry(db)
             IN  /\ run_anomalies' = Bookkeeping(a, o)
                 /\ cache' = CacheAfterAnalyze(a, db, n)
                 /\ Enter(o, n, Some(EffectiveCommandlist(a)), "run")
        /\ rpc' = "comparing"
        /\ UNCHANGED <<prev, db, stdout, ended>>

\* Lines 140-143: -C id1 id2 and the first lookup finds nothing.
RunCompareMissing ==
    /\ rpc = "shell"
    /\ \E a \in ArgSets :
        /\ Start(a)
        /\ ~InvalidMax(a)
        /\ a.mode = "compare"
        /\ cache' = db
        /\ Falsy(get_entry(db, FirstLookup(a)))
        /\ Exit("missing", <<Line("error", <<"cannot find cache entry with id">>,
                                  <<FirstLookup(a)>>)>>)
        /\ UNCHANGED <<engine_vars, db, run_anomalies>>

\* Lines 140-147: the first lookup succeeds and the second finds nothing.
RunCompareMissingOld ==
    /\ rpc = "shell"
    /\ \E a \in ArgSets :
        /\ Start(a)
        /\ ~InvalidMax(a)
        /\ a.mode = "compare"
        /\ cache' = db
        /\ ~Falsy(get_entry(db, FirstLookup(a)))
        /\ Falsy(get_entry(db, SecondLookup(a)))
        /\ Exit("missing", <<Line("error", <<"cannot find cache entry with id">>,
                                  <<SecondLookup(a)>>)>>)
        /\ UNCHANGED <<engine_vars, db, run_anomalies>>

\* Lines 140-152: both entries found: compare_output(old, new, commandlist).
RunCompare ==
    /\ rpc = "shell"
    /\ \E a \in ArgSets :
        /\ Start(a)
        /\ ~InvalidMax(a)
        /\ a.mode = "compare"
        /\ cache' = db
        /\ ~Falsy(get_entry(db, FirstLookup(a)))
        /\ ~Falsy(get_entry(db, SecondLookup(a)))
        /\ run_anomalies' = <<>>
        /\ Enter(get_entry(db, SecondLookup(a)),
                 get_entry(db, FirstLookup(a)).val,
                 Some(EffectiveCommandlist(a)), "run")
        /\ rpc' = "comparing"
        /\ UNCHANGED <<prev, db, stdout, ended>>

\* Lines 152-159: compare_output returned: print, purge, save.
RunFinish ==
    /\ rpc = "comparing"
    /\ pc = "returned"
    /\ run_anomalies' = Merge(run_anomalies, outcome.val)
    /\ \E show_debug \in BOOLEAN :
           Exit("saved", print_anomalies(run_anomalies', show_debug))
    /\ cache' = CacheAfterPurge(cache, args)
    /\ db' = cache'
    /\ UNCHANGED <<engine_vars, args, db0>>

\* compare_output raised: the exception leaves run; nothing is printed
\* by run and the cache is not saved.
RunCrash ==
    /\ rpc = "comparing"
    /\ pc = "raised"
    /\ Exit("crashed", <<>>)
    /\ UNCHANGED <<engine_vars, db, args, cache, run_anomalies, db0>>

\* The process is gone; the cache file is what is left.
Shell ==
    /\ rpc = "exited"
    /\ rpc' = "shell"
    /\ pc' = "idle"
    /\ caller' = "api"
    /\ old_arg' = None
    /\ old' = <<>>
    /\ new' = <<>>
    /\ commandlist' = None
    /\ tasks' = <<>>
    /\ i' = 1
    /\ anomalies' = <<>>
    /\ calls' = <<>>
    /\ contrib' = <<>>
    /\ outcome' = NoOutcome
    /\ args' = NoArgs
    /\ cache' = <<>>
    /\ run_anomalies' = <<>>
    /\ stdout' = <<>>
    /\ ended' = "none"
    /\ db0' = <<>>
    /\ UNCHANGED <<prev, db>>

\* ------------------------------------------------------------ specifications
EngineInit ==
    /\ pc = "idle"
    /\ caller = "api"
    /\ old_arg = None
    /\ old = <<>>
    /\ new = <<>>
    /\ commandlist = None
    /\ tasks = <<>>
    /\ i = 1
    /\ anomalies = <<>>
    /\ calls = <<>>
    /\ contrib = <<>>
    /\ outcome = NoOutcome
    /\ prev = NoPrev

\* A cache file written by another version of the tool: it has a probe "u"
\* this version does not register and lacks probe "b".
LegacyStore == <<[id |-> 1, snapshot |-> <<<<"u", "x">>, <<"a", "x">>>>]>>

\* compare_output called directly.
Init ==
    /\ EngineInit
    /\ rpc = "api"
    /\ db = <<>>
    /\ args = NoArgs
    /\ cache = <<>>
    /\ run_anomalies = <<>>
    /\ stdout = <<>>
    /\ ended = "none"
    /\ db0 = <<>>

Next == Call \/ Recall \/ LoopUnknown \/ LoopFiltered \/ LoopKeyError
        \/ LoopRaise \/ LoopAppend \/ Return

Spec == Init /\ [][Next]_vars

\* The tool run from the shell, any number of times, on one cache file.
InitRun ==
    /\ EngineInit
    /\ rpc = "shell"
    /\ db \in {<<>>, LegacyStore}
    /\ args = NoArgs
    /\ cache = <<>>
    /\ run_anomalies = <<>>
    /\ stdout = <<>>
    /\ ended = "none"
    /\ db0 = <<>>

NextRun == RunInvalidMax \/ RunNoAction \/ RunDeclined \/ RunListCache
           \/ RunListCommands \/ RunAnalyze \/ RunCompareMissing
           \/ RunCompareMissingOld \/ RunCompare \/ RunFinish \/ RunCrash
           \/ Shell \/ LoopUnknown \/ LoopFiltered \/ LoopKeyError
           \/ LoopRaise \/ LoopAppend \/ Return

SpecRun == InitRun /\ [][NextRun]_vars

\* ------------------------------------------------------------ properties
\* The snapshot a caller passed as old, None read as the empty snapshot.
InputOld == IF old_arg.some THEN old_arg.val ELSE <<>>

NonEmptyFilter == commandlist.some /\ commandlist.val # <<>>

InFilter(name) == \E k \in 1..Len(commandlist.val) : commandlist.val[k] = name

KnownName(name) == \E k \in 1..Len(COMMANDS) : COMMANDS[k] = name

UnionNames == {InputOld[k][1] : k \in 1..Len(InputOld)}
              \cup {new[k][1] : k \in 1..Len(new)}

CallsFor(name) == {k \in 1..Len(calls) : calls[k].cmd = name}

ContribOf(name) == {k \in 1..Len(contrib) : contrib[k].task = name}

IsUnknownWarning(x, name) ==
    /\ x[1] = WARNING
    /\ \E k \in 1..Len(x[2]) : x[2][k] = name

RECURSIVE Flatten(_)
Flatten(seqs) ==
    IF seqs = <<>> THEN <<>> ELSE Head(seqs) \o Flatten(Tail(seqs))

\* C1 as stated: whenever a filter is supplied (read here as a filter that
\* names at least one task), every task name outside the filter, registered
\* or not, contributes no anomaly and has no parse or compare call.
C1_FilterSkipsEveryName ==
    NonEmptyFilter =>
        /\ \A k \in 1..Len(contrib) :
               ~InFilter(contrib[k].task) => contrib[k].added = <<>>
        /\ \A k \in 1..Len(calls) : InFilter(calls[k].cmd)

\* C1 (amended): whenever a non-empty filter is supplied, every registered
\* task name outside the filter contributes no anomaly and has no parse or
\* compare call, and every unregistered name outside the filter still
\* contributes its one WARNING.
C1_FilterSkipsRegistered ==
    NonEmptyFilter =>
        /\ \A k \in 1..Len(contrib) :
               ~InFilter(contrib[k].task) =>
                   IF KnownName(contrib[k].task)
                   THEN contrib[k].added = <<>>
                   ELSE /\ Len(contrib[k].added) = 1
                        /\ contrib[k].added[1][1] = WARNING
        /\ \A k \in 1..Len(calls) : InFilter(calls[k].cmd)
        /\ pc = "returned" =>
               \A name \in UnionNames :
                   (KnownName(name) /\ ~InFilter(name)) =>
                       /\ ContribOf(name) # {}
                       /\ CallsFor(name) = {}

C1_Witness ==
    /\ pc = "returned"
    /\ NonEmptyFilter
    /\ \E name \in UnionNames : KnownName(name) /\ ~InFilter(name)
    /\ \E name \in UnionNames : ~KnownName(name) /\ ~InFilter(name)
    /\ Len(calls) > 0

\* C2: compare_output ends by returning the aggregate list or by the
\* exception for a compare that returned a non-list; it never aborts
\* otherwise (an old-only registered name does not abort it).
C2_OnlyContractAbort ==
    pc = "raised" => outcome.kind = "Exception"

\* C3: every unregistered task name gets exactly one WARNING whose message
\* contains the name, nothing else, has no parse or compare call, and the
\* loop goes on; old = new = {u: x} returns exactly that one WARNING.
C3_UnknownWarnsOnce ==
    /\ \A k \in 1..Len(contrib) :
           ~KnownName(contrib[k].task) =>
               /\ Len(contrib[k].added) = 1
               /\ IsUnknownWarning(contrib[k].added[1], contrib[k].task)
    /\ \A k \in 1..Len(calls) : KnownName(calls[k].cmd)
    /\ pc = "returned" =>
           \A name \in UnionNames :
               ~KnownName(name) =>
                   /\ Cardinality(ContribOf(name)) = 1
                   /\ Cardinality({k \in 1..Len(outcome.val) :
                          IsUnknownWarning(outcome.val[k], name)}) = 1
                   /\ \A k \in 1..Len(outcome.val) :
                          (\E j \in 1..Len(outcome.val[k][2]) :
                               outcome.val[k][2][j] = name)
                              => outcome.val[k][1] = WARNING
    /\ (pc = "returned" /\ InputOld = <<<<"u", "x">>>>
            /\ new = <<<<"u", "x">>>>) =>
           /\ Len(outcome.val) = 1
           /\ IsUnknownWarning(outcome.val[1], "u")

C3_Witness ==
    /\ pc = "returned"
    /\ Len(tasks) = 2
    /\ ~KnownName(tasks[1])
    /\ KnownName(tasks[2])
    /\ CallsFor(tasks[2]) # {}
    /\ Len(outcome.val) >= 2

\* C4: a compare that returns a non-list ends the whole comparison with the
\* exception at that task: nothing is returned, not even the anomalies
\* gathered so far, and no later parse or compare happens; an empty list
\* is accepted and adds nothing.
C4_NonListAborts ==
    /\ \A k \in 1..Len(calls) :
           (calls[k].fn = "compare"
                /\ ~Compare(calls[k].cmd, calls[k].a, calls[k].b).islist) =>
               /\ k = Len(calls)
               /\ pc = "raised"
               /\ outcome = [kind |-> "Exception", val |-> <<>>]
               /\ Len(contrib) = i - 1
    /\ \A k \in 1..Len(calls) :
           (calls[k].fn = "compare"
                /\ Compare(calls[k].cmd, calls[k].a, calls[k].b)
                       = [islist |-> TRUE, val |-> <<>>]) =>
               \A j \in ContribOf(calls[k].cmd) : contrib[j].added = <<>>
    /\ outcome.kind = "Exception" =>
           /\ Len(calls) > 0
           /\ calls[Len(calls)].fn = "compare"
           /\ ~Compare(calls[Len(calls)].cmd, calls[Len(calls)].a,
                       calls[Len(calls)].b).islist

C4_Witness ==
    /\ pc = "raised"
    /\ outcome.kind = "Exception"
    /\ Len(anomalies) > 0
    /\ i < Len(tasks)
    /\ KnownName(tasks[i + 1])

\* The order C5 states: all keys of old in their order, then the keys only
\* new has, in their order.
ExpectedOrder ==
    [k \in 1..Len(InputOld) |-> InputOld[k][1]]
    \o SelectSeq([k \in 1..Len(new) |-> new[k][1]],
                 LAMBDA name : \A k \in 1..Len(InputOld) : InputOld[k][1] # name)

\* What a task contributes: its unknown-name WARNING, nothing when the
\* filter leaves it out, or the list its compare returned.
ExpectedContribution(name) ==
    IF ~KnownName(name)
    THEN <<W(<<"unknown command with name", name,
               "found (cache generated by older version?)">>)>>
    ELSE IF NonEmptyFilter /\ ~InFilter(name)
    THEN <<>>
    ELSE Compare(name,
                 Parse(name, IF Has(InputOld, name) THEN Get(InputOld, name)
                             ELSE ""),
                 Parse(name, Get(new, name))).val

\* C5: the returned list is the concatenation of the tasks' contributions,
\* each task name taken once, in the order "keys of old, then keys only in
\* new".
C5_ConcatenationInOrder ==
    pc = "returned" =>
        /\ [k \in 1..Len(contrib) |-> contrib[k].task] = ExpectedOrder
        /\ \A j, k \in 1..Len(contrib) :
               j # k => contrib[j].task # contrib[k].task
        /\ outcome.val =
               Flatten([k \in 1..Len(ExpectedOrder) |->
                            ExpectedContribution(ExpectedOrder[k])])

C5_Witness ==
    /\ pc = "returned"
    /\ [k \in 1..Len(InputOld) |-> InputOld[k][1]] = <<"u", "a">>
    /\ [k \in 1..Len(new) |-> new[k][1]] = <<"a", "b">>
    /\ ~commandlist.some
    /\ Len(outcome.val) = 4

\* C6: compare_output(None, new, f) and compare_output({}, new, f) end the
\* same way with the same list, and a processed task whose name is not a
\* key of old has parse("") as the old side of its compare.
C6_AbsentOldIsEmptyOld ==
    /\ (prev.some /\ pc \in {"returned", "raised"}) =>
           /\ prev.old_arg # old_arg
           /\ outcome = prev.outcome
    /\ \A k \in 1..Len(calls) :
           (calls[k].fn = "compare" /\ ~Has(InputOld, calls[k].cmd)) =>
               calls[k].a = [probe |-> calls[k].cmd, data |-> ""]

C6_Witness ==
    /\ prev.some
    /\ pc = "returned"
    /\ ~old_arg.some
    /\ Len(outcome.val) >= 2
    /\ \E k \in 1..Len(calls) : calls[k].fn = "compare"

\* ------------------------------------------------------------ properties of run
HasId(c, id) == \E k \in 1..Len(c) : c[k].id = id

FullAnalysis == args.mode = "analyze" /\ ~args.commandlist.some

ValidLimit == args.max_cache_entries >= 1 /\ args.max_cache_entries <= 1024

Id1 == args.compare_cache[1]
Id2 == args.compare_cache[2]

NoCacheYet == W(<<"no cache entry found yet so caching baseline">>)
NotCached ==
    W(<<"results NOT cached as only partial command list being run">>)

\* C7: with -C id1 id2 and either id missing from the store, the run stops
\* with the one message naming the missing id (id2 when both are missing),
\* compare_output is not invoked, no anomalies are printed and the store is
\* neither purged nor saved.
C7_MissingIdStops ==
    /\ (rpc = "exited" /\ args.mode = "compare" /\ ValidLimit
            /\ (~HasId(db0, Id1) \/ ~HasId(db0, Id2))) =>
           /\ ended = "missing"
           /\ pc = "idle"
           /\ calls = <<>>
           /\ stdout = <<[tag |-> "error",
                          text |-> <<"cannot find cache entry with id">>,
                          nums |-> <<IF ~HasId(db0, Id2) THEN Id2 ELSE Id1>>]>>
           /\ db = db0
           /\ cache = db0
    /\ (rpc = "comparing" /\ args.mode = "compare") =>
           HasId(db0, Id1) /\ HasId(db0, Id2)

C7_Witness ==
    /\ rpc = "exited"
    /\ ended = "missing"
    /\ args.mode = "compare"
    /\ db0 # <<>>
    /\ Id1 # Id2
    /\ ~HasId(db0, Id1)
    /\ ~HasId(db0, Id2)

\* C8: the saved store has unique ids, strictly increasing in append order;
\* when a full analysis run (-A without -e, limit in 1..1024) has saved, the
\* store holds at most that run's max_cache_entries entries, they are the
\* entries with the greatest ids, and the run's snapshot is the last entry,
\* with id 1 on an empty store and the previous greatest id plus one
\* otherwise.
C8_RetentionAfterFullRuns ==
    /\ \A j, k \in 1..Len(db) : j < k => db[j].id < db[k].id
    /\ (rpc = "exited" /\ ended = "saved" /\ FullAnalysis) =>
           LET appended == db0 \o <<[id |-> IF db0 = <<>> THEN 1
                                            ELSE db0[Len(db0)].id + 1,
                                     snapshot |-> new]>>
               kept == IF Len(appended) > args.max_cache_entries
                       THEN args.max_cache_entries ELSE Len(appended)
           IN  /\ ValidLimit
               /\ Len(db) <= args.max_cache_entries
               /\ Len(db) = kept
               /\ Len(db) >= 1
               /\ db[Len(db)] = appended[Len(appended)]
               /\ \A k \in 1..Len(db) :
                      db[k] = appended[Len(appended) - Len(db) + k]
               /\ \A k \in 1..Len(appended) :
                      ~HasId(db, appended[k].id) =>
                          \A j \in 1..Len(db) : appended[k].id < db[j].id

C8_Witness ==
    /\ rpc = "exited"
    /\ ended = "saved"
    /\ FullAnalysis
    /\ args.max_cache_entries = 2
    /\ Len(db0) = 2
    /\ Len(db) = 2
    /\ db[1].id = 2

\* C9: an analysis hands compare_output the baseline read from the store
\* as it was before the run's snapshot was appended; an entry is appended
\* if and only if no -e was given; and in the final list the run's own
\* warning comes before everything compare_output returned.
C9_BaselineBeforeAppend ==
    /\ (rpc = "comparing" /\ args.mode = "analyze") =>
           /\ old_arg = (IF db0 = <<>> THEN None
                         ELSE Some(db0[Len(db0)].snapshot))
           /\ IF args.commandlist.some
              THEN cache = db0
              ELSE /\ Len(cache) = Len(db0) + 1
                   /\ SubSeq(cache, 1, Len(db0)) = db0
                   /\ cache[Len(cache)].snapshot = new
           /\ run_anomalies =
                  (IF args.commandlist.some THEN <<NotCached>>
                   ELSE IF db0 = <<>> THEN <<NoCacheYet>> ELSE <<>>)
    /\ (rpc = "exited" /\ ended = "saved" /\ args.mode = "analyze") =>
           run_anomalies =
               (IF args.commandlist.some THEN <<NotCached>>
                ELSE IF db0 = <<>> THEN <<NoCacheYet>> ELSE <<>>)
               \o outcome.val

C9_Witness ==
    /\ rpc = "exited"
    /\ ended = "saved"
    /\ FullAnalysis
    /\ db0 = <<>>
    /\ Len(run_anomalies) >= 2
    /\ run_anomalies[1] = NoCacheYet

\* C10 as stated: a run that is not a full analysis (-L, -E, -A with -e,
\* -C id1 id2) leaves the persisted entries exactly as they were.
C10_OnlyFullAnalysisChangesStore ==
    (rpc = "exited" /\ ~FullAnalysis) => db = db0

\* C10 (amended): a run that is not a full analysis never appends an entry.
\* -L, -E and a -C run with a missing id leave the persisted entries as
\* they were; a partial analysis and a -C run that reach the end purge and
\* save, so the store keeps its max_cache_entries greatest ids and is
\* unchanged only when it held no more than that.
C10_OtherRunsOnlyPurge ==
    (rpc = "exited" /\ ~FullAnalysis) =>
        /\ Len(db) <= Len(db0)
        /\ \A k \in 1..Len(db) : db[k] = db0[Len(db0) - Len(db) + k]
        /\ Len(db) = (IF ended = "saved" /\ Len(db0) > args.max_cache_entries
                      THEN args.max_cache_entries ELSE Len(db0))
        /\ args.mode \in {"list_cache", "list_commands", "none"} => db = db0
        /\ ended = "saved" => args.mode \in {"analyze", "compare"}

C10_Witness ==
    /\ rpc = "exited"
    /\ ended = "saved"
    /\ args.mode = "compare"
    /\ Len(db0) = 2
    /\ Len(db) = 1

====
